---- MODULE Spec2Model ----
(***************************************************************************)
(* Canary-Bot (src/Canary-Code.py): a Discord bot that relays the messages *)
(* posted in one server's shared channel to the shared channels of the     *)
(* other servers of the same group.                                        *)
(*                                                                         *)
(* State: the three module-level dictionaries, the settings file, and the  *)
(* on_message coroutines in flight (each with its relay tasks).  Python    *)
(* dicts keep insertion order, so an inner dict is a sequence of           *)
(* <<key, value>> pairs.  Strings that the code builds are sequences of    *)
(* one-character strings.                                                  *)
(***************************************************************************)
EXTENDS Integers, Sequences, FiniteSets, TLC

\* ------------------------------------------------------------ the universe

\* The servers (guild ids) the bot is in.
Guilds == {1, 2, 3}

\* The text channels of a server (channel ids); a channel id names its guild.
ChannelsOf(g) == IF g = 1 THEN {11, 12} ELSE {10 * g + 1}

Channels == UNION {ChannelsOf(g) : g \in Guilds}

\* The channel of a guild in which its commands are typed.
Lobby(g) == 10 * g + 1

\* Two sets of inputs, one per specification.
\*
\* Regrouping (Spec): servers 1 and 2; server 1 moves between the groups
\* "", "a" and "b" and binds either of its channels; every channel id of the
\* settings file resolves.  "" is the string Python's truth test takes for
\* false.
RegroupGuilds == {1, 2}

RegroupArgs(g) == IF g = 1 THEN {"", "a", "b"} ELSE {"a"}

RegroupLive == {Channels}

\* Fan-out (SpecFan): servers 1, 2 and 3, all of group "a", each with its
\* one channel; the channel of server 3 may have gone when the settings are
\* loaded.
FanGuilds == {1, 2, 3}

FanArgs(g) == {"a"}

FanChannelsOf(g) == {Lobby(g)}

FanLive == {Channels, Channels \ {31}}

\* Failing writes (SpecSave): servers 1 and 2 of group "a", each with its
\* one channel; every channel id resolves, and a write of the settings file
\* may fail.
SaveGuilds == {1, 2}

SaveArgs(g) == {"a"}

SaveLive == {Channels}

\* Two handlers at once (SpecPair): servers 1 and 2 of group "a", each with
\* its one channel, their users' plain messages and their administrators'
\* commands, handled by two on_message coroutines that take turns at their
\* waits.
PairGuilds == {1, 2}

PairSlots == {1, 2}

\* How many on_message coroutines are in flight at once.
MaxHandlers == 1

Slots == 1 .. MaxHandlers

\* Python's None: server_groups.get on a missing key ...
None == "<None>"

\* ... and bot.get_channel on an id that does not resolve.
NoChannel == [none |-> TRUE]

\* A discord.TextChannel object: its id and its guild.
ChannelObj(cid) == [id |-> cid, guild |-> cid \div 10]

VARIABLES
    server_groups,   \* guild id -> group id          (a function on the keys)
    group_mappings,  \* group id -> <<guild id, channel>> pairs in dict order
    relay_enabled,   \* group id -> <<guild id, status>> pairs in dict order
    disk,            \* settings.json: NoFile or the saved document
    handlers,        \* slot -> Idle or the on_message coroutine running there
    formatting       \* a call of format_mentions: its arguments and its result

vars == <<server_groups, group_mappings, relay_enabled, disk, handlers, formatting>>

mem == <<server_groups, group_mappings, relay_enabled>>

\* ------------------------------------------------------------ Python dicts

\* d.keys() of an ordered dict.
Keys(d) == {d[n][1] : n \in 1 .. Len(d)}

\* key in d
Has(d, k) == k \in Keys(d)

\* d[k] for a key that is there.
Get(d, k) == d[CHOOSE n \in 1 .. Len(d) : d[n][1] = k][2]

\* d.get(k, default)
GetOr(d, k, default) == IF Has(d, k) THEN Get(d, k) ELSE default

\* d[k] = v: in place for a key that is there, appended for a new one.
Put(d, k, v) ==
    IF Has(d, k)
    THEN [n \in 1 .. Len(d) |-> IF d[n][1] = k THEN <<k, v>> ELSE d[n]]
    ELSE Append(d, <<k, v>>)

\* f[k] = v on an outer dict (a function on its keys).
Store(f, k, v) == [x \in DOMAIN f \cup {k} |-> IF x = k THEN v ELSE f[x]]

\* server_groups.get(guild_id)
GroupOf(sg, g) == IF g \in DOMAIN sg THEN sg[g] ELSE None

\* Python's truth test of a group id: None and "" are false.
Truthy(group_id) == group_id # None /\ group_id # ""

\* ------------------------------------------------------- str() and int()

Digits == <<"0", "1", "2", "3", "4", "5", "6", "7", "8", "9">>

\* str(n) of a non-negative integer, as json.dump writes a dict's int key
\* and as an f-string writes a user id.
RECURSIVE Str(_)
Str(n) == IF n < 10 THEN <<Digits[n + 1]>> ELSE Str(n \div 10) \o <<Digits[(n % 10) + 1]>>

DigitVal(c) == (CHOOSE k \in 1 .. 10 : Digits[k] = c) - 1

\* int(s) of a string of digits.
RECURSIVE ParseInt(_)
ParseInt(s) == IF Len(s) = 1 THEN DigitVal(s[1]) ELSE 10 * ParseInt(SubSeq(s, 1, Len(s) - 1)) + DigitVal(s[Len(s)])

\* ---------------------------------------------------------- the settings

NoFile == [exists |-> FALSE]

\* A file that open(SETTINGS_FILE, "w") has truncated and json.dump has not
\* finished: json.load raises on it.
Torn == [exists |-> TRUE, torn |-> TRUE]

\* What the save may meet when it writes the file: the write succeeds ...
SaveOutcomes == {"ok"}

\* ... or open() raises and the file is left as it was ("denied"), or the
\* write raises after open() has truncated the file ("torn").
SaveFailures == {"denied", "torn"}

\* The in-memory state a handler works on, passed as a record.
State(sg, gm, re, dk) == [sg |-> sg, gm |-> gm, re |-> re, dk |-> dk]

Now == State(server_groups, group_mappings, relay_enabled, disk)

\* {gid: channel.id for gid, channel in v.items()}: an attribute error on a
\* channel that is None.
ChannelIds(v) == [n \in 1 .. Len(v) |-> <<Str(v[n][1]), v[n][2].id>>]

StrKeys(v) == [n \in 1 .. Len(v) |-> <<Str(v[n][1]), v[n][2]>>]

HasNone(gm) == \E k \in DOMAIN gm : \E n \in 1 .. Len(gm[k]) : gm[k][n][2] = NoChannel

\* The document save_settings builds and json.dump writes: the int keys of
\* the dicts become strings.
Document(s) ==
    [group_mappings |-> [k \in DOMAIN s.gm |-> ChannelIds(s.gm[k])],
     relay_enabled |-> [k \in DOMAIN s.re |-> StrKeys(s.re[k])],
     server_groups |-> [k \in {Str(g) : g \in DOMAIN s.sg} |-> s.sg[ParseInt(k)]]]

\* bot.get_channel(cid): the channel, or None for an id that does not resolve.
get_channel(cid, live) == IF cid \in live THEN ChannelObj(cid) ELSE NoChannel

\* load_settings() that takes every binding of the file for enabled.
load_settings_all_enabled(s, live) ==
    IF s.dk = NoFile \/ s.dk = Torn
    THEN s
    ELSE [s EXCEPT
            !.gm = [k \in DOMAIN s.dk.group_mappings |->
                      [n \in 1 .. Len(s.dk.group_mappings[k]) |->
                         <<ParseInt(s.dk.group_mappings[k][n][1]),
                           get_channel(s.dk.group_mappings[k][n][2], live)>>]],
            !.re = [k \in DOMAIN s.dk.relay_enabled |->
                      [n \in 1 .. Len(s.dk.relay_enabled[k]) |->
                         <<ParseInt(s.dk.relay_enabled[k][n][1]), TRUE>>]],
            !.sg = [g \in {ParseInt(k) : k \in DOMAIN s.dk.server_groups} |->
                      s.dk.server_groups[Str(g)]]]

\* load_settings() that leaves out of the channel table the entries whose
\* channel id does not resolve, and loads the enabled table as it is.
load_settings_dropping_unresolved(s, live) ==
    IF s.dk = NoFile \/ s.dk = Torn
    THEN s
    ELSE [s EXCEPT
            !.gm = [k \in DOMAIN s.dk.group_mappings |->
                      SelectSeq([n \in 1 .. Len(s.dk.group_mappings[k]) |->
                                   <<ParseInt(s.dk.group_mappings[k][n][1]),
                                     get_channel(s.dk.group_mappings[k][n][2], live)>>],
                                LAMBDA e : e[2] # NoChannel)],
            !.re = [k \in DOMAIN s.dk.relay_enabled |->
                      [n \in 1 .. Len(s.dk.relay_enabled[k]) |->
                         <<ParseInt(s.dk.relay_enabled[k][n][1]), s.dk.relay_enabled[k][n][2]>>]],
            !.sg = [g \in {ParseInt(k) : k \in DOMAIN s.dk.server_groups} |->
                      s.dk.server_groups[Str(g)]]]

\* load_settings(): the three dicts rebuilt from the file; a missing file,
\* or one that json.load cannot read, leaves them as they are.
load_settings(s, live) ==
    IF s.dk = NoFile \/ s.dk = Torn
    THEN s
    ELSE [s EXCEPT
            !.gm = [k \in DOMAIN s.dk.group_mappings |->
                      [n \in 1 .. Len(s.dk.group_mappings[k]) |->
                         <<ParseInt(s.dk.group_mappings[k][n][1]),
                           get_channel(s.dk.group_mappings[k][n][2], live)>>]],
            !.re = [k \in DOMAIN s.dk.relay_enabled |->
                      [n \in 1 .. Len(s.dk.relay_enabled[k]) |->
                         <<ParseInt(s.dk.relay_enabled[k][n][1]), s.dk.relay_enabled[k][n][2]>>]],
            !.sg = [g \in {ParseInt(k) : k \in DOMAIN s.dk.server_groups} |->
                      s.dk.server_groups[Str(g)]]]

\* save_settings() that gives up the unsaved changes when the write fails:
\* the memory goes back to what the file held.
save_settings_or_revert(s, io) ==
    IF HasNone(s.gm) \/ io = "denied"
    THEN [s |-> load_settings(s, Channels), raised |-> TRUE]
    ELSE IF io = "torn"
    THEN [s |-> [load_settings(s, Channels) EXCEPT !.dk = Torn], raised |-> TRUE]
    ELSE [s |-> [s EXCEPT !.dk = Document(s)], raised |-> FALSE]

\* save_settings(): the state after it and whether it raised.  Building the
\* document raises before the file is opened; a failed open leaves the file.
save_settings(s, io) ==
    IF HasNone(s.gm) \/ io = "denied"
    THEN [s |-> s, raised |-> TRUE]
    ELSE IF io = "torn"
    THEN [s |-> [s EXCEPT !.dk = Torn], raised |-> TRUE]
    ELSE [s |-> [s EXCEPT !.dk = Document(s)], raised |-> FALSE]

\* ---------------------------------------------------------- the commands

\* What a command leaves: the state, the text it replies with (None when it
\* raised before replying) and whether it raised.
Outcome(s, reply) == [s |-> s, reply |-> reply, raised |-> FALSE]

\* A mutation followed by save_settings() and the reply.
Saved(s, io, reply) ==
    LET r == save_settings(s, io)
    IN  [s |-> r.s, reply |-> IF r.raised THEN None ELSE reply, raised |-> r.raised]

\* /setgroup <group_id>
set_group(s, guild, group_id, io) ==
    Saved([s EXCEPT !.sg = Store(s.sg, guild, group_id)], io, "GroupSet")

\* /setsharedchannel that records the channel, saves and replies, and leaves
\* the enabled flag for later.
set_shared_channel_flag_later(s, guild, channel, io) ==
    LET group_id == GroupOf(s.sg, guild)
        gm0 == IF group_id \in DOMAIN s.gm THEN s.gm ELSE Store(s.gm, group_id, <<>>)
        re0 == IF group_id \in DOMAIN s.gm THEN s.re ELSE Store(s.re, group_id, <<>>)
        gm1 == Store(gm0, group_id, Put(gm0[group_id], guild, channel))
    IN  IF ~Truthy(group_id)
        THEN Outcome(s, "NotGrouped")
        ELSE Saved([s EXCEPT !.gm = gm1, !.re = re0], io, "ChannelSet")

\* /setsharedchannel <channel>
set_shared_channel(s, guild, channel, io) ==
    LET group_id == GroupOf(s.sg, guild)
        gm0 == IF group_id \in DOMAIN s.gm THEN s.gm ELSE Store(s.gm, group_id, <<>>)
        re0 == IF group_id \in DOMAIN s.gm THEN s.re ELSE Store(s.re, group_id, <<>>)
        gm1 == Store(gm0, group_id, Put(gm0[group_id], guild, channel))
    IN  IF ~Truthy(group_id)
        THEN Outcome(s, "NotGrouped")
        ELSE IF group_id \notin DOMAIN re0
        THEN [s |-> [s EXCEPT !.gm = gm1, !.re = re0], reply |-> None, raised |-> TRUE]
        ELSE Saved([s EXCEPT !.gm = gm1,
                             !.re = Store(re0, group_id, Put(re0[group_id], guild, TRUE))],
                   io, "ChannelSet")

\* /enable
enable_relay(s, guild, io) ==
    LET group_id == GroupOf(s.sg, guild)
    IN  IF Truthy(group_id) /\ group_id \in DOMAIN s.re /\ Has(s.re[group_id], guild)
        THEN Saved([s EXCEPT !.re = Store(s.re, group_id, Put(s.re[group_id], guild, TRUE))],
                   io, "Enabled")
        ELSE Outcome(s, "NoBinding")

\* /disable that switches off every binding of the group, not the server's
\* own alone.
disable_relay_whole_group(s, guild, io) ==
    LET group_id == GroupOf(s.sg, guild)
    IN  IF Truthy(group_id) /\ group_id \in DOMAIN s.re /\ Has(s.re[group_id], guild)
        THEN Saved([s EXCEPT !.re = Store(s.re, group_id,
                        [n \in 1 .. Len(s.re[group_id]) |-> <<s.re[group_id][n][1], FALSE>>])],
                   io, "Disabled")
        ELSE Outcome(s, "NoBinding")

\* /disable
disable_relay(s, guild, io) ==
    LET group_id == GroupOf(s.sg, guild)
    IN  IF Truthy(group_id) /\ group_id \in DOMAIN s.re /\ Has(s.re[group_id], guild)
        THEN Saved([s EXCEPT !.re = Store(s.re, group_id, Put(s.re[group_id], guild, FALSE))],
                   io, "Disabled")
        ELSE Outcome(s, "NoBinding")

\* /ping
ping(s) == Outcome(s, "Pong")

\* ------------------------------------------------------------- messages

\* A guild's name and the author's display name, as the f-string reads them.
GuildName(g) == <<"G">> \o Str(g)

AuthorName == <<"X">>

\* The users a message may mention.
Users == {1, 2}

\* The members of a guild, user id -> display name there: what
\* target_guild.get_member(user.id) finds.  User 1 is "Bob" in guild 2 and
\* no member of guild 3.
MembersOf(g) ==
    IF g = 1 THEN (1 :> <<"A", "l">>) @@ (2 :> <<"C", "y">>)
    ELSE IF g = 2 THEN (1 :> <<"B", "o", "b">>)
    ELSE (2 :> <<"C", "y">>)

\* str.replace(old, new): every non-overlapping occurrence, left to right.
RECURSIVE Replace(_, _, _)
Replace(str, old, new) ==
    IF Len(str) < Len(old) THEN str
    ELSE IF SubSeq(str, 1, Len(old)) = old
    THEN new \o Replace(SubSeq(str, Len(old) + 1, Len(str)), old, new)
    ELSE <<Head(str)>> \o Replace(Tail(str), old, new)

\* f"<@{user.id}>"
MentionToken(u) == <<"<", "@">> \o Str(u) \o <<">">>

\* format_mentions(content, target_guild), with message.mentions as a
\* sequence of user ids and the target guild as its members.
RECURSIVE format_mentions(_, _, _)
format_mentions(content, mentions, members) ==
    IF mentions = <<>> THEN content
    ELSE LET user == Head(mentions)
             formatted == IF user \in DOMAIN members
                          THEN Replace(content, MentionToken(user), <<"@">> \o members[user])
                          ELSE content
         IN  format_mentions(formatted, Tail(mentions), members)

\* The calls of format_mentions that are tried one by one (SpecMentions).
\* A body is made of up to three pieces: a mention of user 1 or of user 2,
\* an angle bracket or a letter.
Pieces == {MentionToken(1), MentionToken(2), <<"<">>, <<">">>, <<"x">>, <<>>}

Bodies == {a \o b \o c : a, b, c \in Pieces}

\* The display names a member may carry in the target guild: a plain name,
\* a digit, the text of a mention.
DisplayNames == {<<"A", "l">>, <<"2">>, MentionToken(2)}

\* The memberships of a target guild: some of the users, each under a name.
Memberships == UNION {[S -> DisplayNames] : S \in SUBSET Users}

\* message.mentions: some of the users, each once, in any order.
Orderings(S) == {q \in [1 .. Cardinality(S) -> S] : \A a, b \in 1 .. Cardinality(S) : a # b => q[a] # q[b]}

MentionLists == UNION {Orderings(S) : S \in SUBSET Users}

\* Whether the command carries the administrator check.
NeedsAdmin(cmd) == cmd # "ping"

\* The messages that may arrive from guild g, given the group ids and the
\* channels its users type: a plain text in any channel, and in the lobby
\* the bot's own copy and each command, typed by an administrator or by
\* someone else.
Messages(g, groups, chans) ==
    {[guild |-> g, channel |-> c, bot |-> FALSE, admin |-> FALSE, cmd |-> None, arg |-> None] :
        c \in chans}
    \cup {[guild |-> g, channel |-> Lobby(g), bot |-> TRUE, admin |-> FALSE, cmd |-> None, arg |-> None]}
    \cup {[guild |-> g, channel |-> Lobby(g), bot |-> FALSE, admin |-> a, cmd |-> "setgroup", arg |-> x] :
        a \in BOOLEAN, x \in groups}
    \cup {[guild |-> g, channel |-> Lobby(g), bot |-> FALSE, admin |-> a, cmd |-> "setsharedchannel", arg |-> x] :
        a \in BOOLEAN, x \in chans}
    \cup {[guild |-> g, channel |-> Lobby(g), bot |-> FALSE, admin |-> a, cmd |-> k, arg |-> None] :
        a \in BOOLEAN, k \in {"enable", "disable", "ping"}}

\* The texts of the messages, character by character.
HI == <<"h", "i", " ", "<", "@", "1", ">", "!">>

SETGROUP == <<"/", "s", "e", "t", "g", "r", "o", "u", "p">>

SETSHARED == <<"/", "s", "e", "t", "s", "h", "a", "r", "e", "d", "c", "h", "a", "n", "n", "e", "l">>

ENABLE == <<"/", "e", "n", "a", "b", "l", "e">>

DISABLE == <<"/", "d", "i", "s", "a", "b", "l", "e">>

PING == <<"/", "p", "i", "n", "g">>

SeqOfGroup(x) == IF x = "" THEN <<>> ELSE <<x>>

\* message.content
ContentOf(m) ==
    IF m.cmd = None THEN HI
    ELSE IF m.cmd = "setgroup" THEN SETGROUP \o <<" ", "'">> \o SeqOfGroup(m.arg) \o <<"'">>
    ELSE IF m.cmd = "setsharedchannel" THEN SETSHARED \o <<" ", "<", "#">> \o Str(m.arg) \o <<">">>
    ELSE IF m.cmd = "enable" THEN ENABLE
    ELSE IF m.cmd = "disable" THEN DISABLE
    ELSE PING

\* message.mentions
MentionsOf(m) == IF m.cmd = None THEN <<1>> ELSE <<>>

\* ------------------------------------------------------------ on_message

Idle == [pc |-> "idle"]

\* A coroutine of on_message: its message, where it stands ("reply": inside
\* process_commands, waiting for the command's ctx.send; "gather": waiting
\* for its relay tasks; "returned"; "raised"), the reply of its command and
\* its relay tasks by target guild.
Handler(m, pc, reply, tasks) ==
    [msg |-> [guild |-> m.guild, channel |-> m.channel, bot |-> m.bot, cmd |-> m.cmd, arg |-> m.arg],
     pc |-> pc, reply |-> reply, tasks |-> tasks]

NoTasks == [g \in {} |-> None]

\* A coroutine of relay_message, waiting for target_channel.send(content).
\* st: "send", "sleep" (sent, in asyncio.sleep), "done" (slept and returned),
\* "failed" (HTTPException caught and logged, returned), "raised" (any other
\* exception, which leaves the coroutine).
Task(target_channel, content) == [channel |-> target_channel, content |-> content, st |-> "send"]

\* bot.process_commands(message): the command's callback run up to its
\* reply.  A message that invokes no command, or whose author fails the
\* administrator check, leaves the state alone and replies nothing.
process_commands(s, m, io) ==
    IF m.cmd = None \/ (NeedsAdmin(m.cmd) /\ ~m.admin)
    THEN [s |-> s, reply |-> None, raised |-> FALSE]
    ELSE IF m.cmd = "setgroup" THEN set_group(s, m.guild, m.arg, io)
    ELSE IF m.cmd = "setsharedchannel" THEN set_shared_channel(s, m.guild, ChannelObj(m.arg), io)
    ELSE IF m.cmd = "enable" THEN enable_relay(s, m.guild, io)
    ELSE IF m.cmd = "disable" THEN disable_relay(s, m.guild, io)
    ELSE ping(s)

\* The guild ids of the list comprehension's filter, in dict order:
\* target_guild_id != message.guild.id and relay_enabled[group_id].get(target_guild_id, False)
TargetIds(s, group_id, guild) ==
    SelectSeq([n \in 1 .. Len(s.gm[group_id]) |-> s.gm[group_id][n][1]],
              LAMBDA t : t # guild /\ GetOr(s.re[group_id], t, FALSE))

\* The text relayed to one target.
RelayText(m, target_guild) ==
    <<"[">> \o GuildName(m.guild) \o <<"]", " ">> \o AuthorName \o <<":", " ">>
        \o format_mentions(ContentOf(m), MentionsOf(m), MembersOf(target_guild))

\* relay_tasks: one coroutine per target; reading target_channel.guild of a
\* channel that is None raises.
relay_tasks(s, m, group_id) ==
    LET ids == TargetIds(s, group_id, m.guild)
        channel(t) == Get(s.gm[group_id], t)
    IN  IF \E n \in 1 .. Len(ids) : channel(ids[n]) = NoChannel
        THEN [raised |-> TRUE, tasks |-> NoTasks]
        ELSE [raised |-> FALSE,
              tasks |-> [t \in {ids[n] : n \in 1 .. Len(ids)} |->
                           Task(channel(t), RelayText(m, channel(t).guild))]]

\* relay with the comparison of message.channel.id to the origin channel
\* left out: a message posted anywhere in a bound, enabled server is relayed.
relay_from_any_channel(s, m, reply) ==
    LET group_id == GroupOf(s.sg, m.guild)
    IN  IF ~(Truthy(group_id) /\ group_id \in DOMAIN s.gm /\ Has(s.gm[group_id], m.guild))
        THEN Handler(m, "returned", reply, NoTasks)
        ELSE IF group_id \notin DOMAIN s.re
        THEN Handler(m, "raised", reply, NoTasks)
        ELSE IF ~GetOr(s.re[group_id], m.guild, FALSE)
        THEN Handler(m, "returned", reply, NoTasks)
        ELSE IF Get(s.gm[group_id], m.guild) = NoChannel
        THEN Handler(m, "raised", reply, NoTasks)
        ELSE LET r == relay_tasks(s, m, group_id)
             IN  IF r.raised THEN Handler(m, "raised", reply, NoTasks)
                 ELSE IF DOMAIN r.tasks = {} THEN Handler(m, "returned", reply, NoTasks)
                 ELSE Handler(m, "gather", reply, r.tasks)

\* The relay part of on_message, from the group lookup to asyncio.gather:
\* the coroutine as it stands when it first waits or ends.
relay(s, m, reply) ==
    LET group_id == GroupOf(s.sg, m.guild)
    IN  IF ~(Truthy(group_id) /\ group_id \in DOMAIN s.gm /\ Has(s.gm[group_id], m.guild))
        THEN Handler(m, "returned", reply, NoTasks)
        ELSE IF group_id \notin DOMAIN s.re
        THEN Handler(m, "raised", reply, NoTasks)
        ELSE IF ~GetOr(s.re[group_id], m.guild, FALSE)
        THEN Handler(m, "returned", reply, NoTasks)
        ELSE IF Get(s.gm[group_id], m.guild) = NoChannel
        THEN Handler(m, "raised", reply, NoTasks)
        ELSE IF m.channel # Get(s.gm[group_id], m.guild).id
        THEN Handler(m, "returned", reply, NoTasks)
        ELSE LET r == relay_tasks(s, m, group_id)
             IN  IF r.raised THEN Handler(m, "raised", reply, NoTasks)
                 ELSE IF DOMAIN r.tasks = {} THEN Handler(m, "returned", reply, NoTasks)
                 ELSE Handler(m, "gather", reply, r.tasks)

\* on_message without the test of the author: the bot's own copies are
\* handled like anybody's message.
on_message_relays_own_copies(s, m, io) ==
    LET c == process_commands(s, m, io)
    IN  IF c.reply # None
        THEN [s |-> c.s, h |-> Handler(m, "reply", c.reply, NoTasks)]
        ELSE [s |-> c.s, h |-> relay(c.s, m, None)]

\* on_message that takes the relay decision on the state it finds, before
\* the command of the message has run.
on_message_relay_first(s, m, io) ==
    IF m.bot
    THEN [s |-> s, h |-> Handler(m, "returned", None, NoTasks)]
    ELSE LET c == process_commands(s, m, io)
         IN  [s |-> c.s, h |-> relay(s, m, c.reply)]

\* on_message up to its first wait: the bot's own message returns at once;
\* a command that replies waits in ctx.send; anything else goes on to relay.
on_message(s, m, io) ==
    IF m.bot
    THEN [s |-> s, h |-> Handler(m, "returned", None, NoTasks)]
    ELSE LET c == process_commands(s, m, io)
         IN  IF c.reply # None
             THEN [s |-> c.s, h |-> Handler(m, "reply", c.reply, NoTasks)]
             ELSE [s |-> c.s, h |-> relay(c.s, m, None)]

\* asyncio.gather(*relay_tasks) seen from on_message: the first exception
\* of a task is raised at once; otherwise it returns when every task has.
gather(h) ==
    IF h.pc # "gather" THEN h
    ELSE IF \E t \in DOMAIN h.tasks : h.tasks[t].st = "raised" THEN [h EXCEPT !.pc = "raised"]
    ELSE IF \A t \in DOMAIN h.tasks : h.tasks[t].st \in {"done", "failed"}
    THEN [h EXCEPT !.pc = "returned"]
    ELSE h

\* What target_channel.send may end with: sent, a discord.HTTPException, or
\* any other exception (a connection error of the transport).
SendOutcomes == {"ok", "http", "other"}

\* relay_message after its send: the sleep follows a send that succeeded;
\* the except clause catches HTTPException alone.
relay_message(task, outcome) ==
    IF outcome = "ok" THEN [task EXCEPT !.st = "sleep"]
    ELSE IF outcome = "http" THEN [task EXCEPT !.st = "failed"]
    ELSE [task EXCEPT !.st = "raised"]

\* ------------------------------------------------------------ the machine

\* No call of format_mentions under way.
NoCall == [called |-> FALSE]

Init ==
    /\ server_groups = [g \in {} |-> None]
    /\ group_mappings = [k \in {} |-> <<>>]
    /\ relay_enabled = [k \in {} |-> <<>>]
    /\ disk = NoFile
    /\ handlers = [i \in Slots |-> Idle]
    /\ formatting = NoCall

SetState(s) ==
    /\ server_groups' = s.sg
    /\ group_mappings' = s.gm
    /\ relay_enabled' = s.re
    /\ disk' = s.dk

\* on_ready: load_settings(), with the channel ids that resolve.
OnReady(live) ==
    /\ SetState(load_settings(Now, live))
    /\ UNCHANGED <<handlers, formatting>>

\* A message arrives and on_message runs to its first wait.
OnMessage(i, m, io) ==
    /\ handlers[i] = Idle
    /\ LET r == on_message(Now, m, io)
       IN  /\ SetState(r.s)
           /\ handlers' = [handlers EXCEPT ![i] = r.h]
    /\ UNCHANGED formatting

\* The command's ctx.send is over; on_message goes on to relay.
Resume(i) ==
    /\ handlers[i].pc = "reply"
    /\ handlers' = [handlers EXCEPT ![i] = relay(Now, handlers[i].msg, handlers[i].reply)]
    /\ UNCHANGED <<server_groups, group_mappings, relay_enabled, disk, formatting>>

\* The send of one relay task is over.
Send(i, t, outcome) ==
    /\ handlers[i] # Idle
    /\ t \in DOMAIN handlers[i].tasks
    /\ handlers[i].tasks[t].st = "send"
    /\ handlers' = [handlers EXCEPT ![i] =
            gather([@ EXCEPT !.tasks[t] = relay_message(@, outcome)])]
    /\ UNCHANGED <<server_groups, group_mappings, relay_enabled, disk, formatting>>

\* The sleep of one relay task is over.
Wake(i, t) ==
    /\ handlers[i] # Idle
    /\ t \in DOMAIN handlers[i].tasks
    /\ handlers[i].tasks[t].st = "sleep"
    /\ handlers' = [handlers EXCEPT ![i] = gather([@ EXCEPT !.tasks[t].st = "done"])]
    /\ UNCHANGED <<server_groups, group_mappings, relay_enabled, disk, formatting>>

\* on_message and all its tasks are over: the event loop drops them.
Forget(i) ==
    /\ handlers[i] # Idle
    /\ handlers[i].pc \in {"returned", "raised"}
    /\ \A t \in DOMAIN handlers[i].tasks : handlers[i].tasks[t].st \in {"done", "failed", "raised"}
    /\ handlers' = [handlers EXCEPT ![i] = Idle]
    /\ UNCHANGED <<server_groups, group_mappings, relay_enabled, disk, formatting>>

Next ==
    \/ \E live \in RegroupLive : OnReady(live)
    \/ \E i \in Slots, g \in RegroupGuilds, io \in SaveOutcomes :
          \E m \in Messages(g, RegroupArgs(g), ChannelsOf(g)) : OnMessage(i, m, io)
    \/ \E i \in Slots : Resume(i)
    \/ \E i \in Slots, t \in Guilds, outcome \in SendOutcomes : Send(i, t, outcome)
    \/ \E i \in Slots, t \in Guilds : Wake(i, t)
    \/ \E i \in Slots : Forget(i)

Spec == Init /\ [][Next]_vars

NextFan ==
    \/ \E live \in FanLive : OnReady(live)
    \/ \E i \in Slots, g \in FanGuilds, io \in SaveOutcomes :
          \E m \in Messages(g, FanArgs(g), FanChannelsOf(g)) : OnMessage(i, m, io)
    \/ \E i \in Slots : Resume(i)
    \/ \E i \in Slots, t \in Guilds, outcome \in SendOutcomes : Send(i, t, outcome)
    \/ \E i \in Slots, t \in Guilds : Wake(i, t)
    \/ \E i \in Slots : Forget(i)

SpecFan == Init /\ [][NextFan]_vars

NextSave ==
    \/ \E live \in SaveLive : OnReady(live)
    \/ \E i \in Slots, g \in SaveGuilds, io \in SaveOutcomes \cup SaveFailures :
          \E m \in Messages(g, SaveArgs(g), FanChannelsOf(g)) : OnMessage(i, m, io)
    \/ \E i \in Slots : Resume(i)
    \/ \E i \in Slots, t \in Guilds, outcome \in SendOutcomes : Send(i, t, outcome)
    \/ \E i \in Slots, t \in Guilds : Wake(i, t)
    \/ \E i \in Slots : Forget(i)

SpecSave == Init /\ [][NextSave]_vars

\* The messages of SpecPair.
PairMessages(g) ==
    {m \in Messages(g, {"a"}, FanChannelsOf(g)) :
        ~m.bot /\ m.cmd # "ping" /\ (m.cmd = None \/ m.admin)}

InitPair ==
    /\ server_groups = [g \in {} |-> None]
    /\ group_mappings = [k \in {} |-> <<>>]
    /\ relay_enabled = [k \in {} |-> <<>>]
    /\ disk = NoFile
    /\ handlers = [i \in PairSlots |-> Idle]
    /\ formatting = NoCall

NextPair ==
    \/ \E live \in SaveLive : OnReady(live)
    \/ \E i \in PairSlots, g \in PairGuilds, io \in SaveOutcomes :
          \E m \in PairMessages(g) : OnMessage(i, m, io)
    \/ \E i \in PairSlots : Resume(i)
    \/ \E i \in PairSlots, t \in Guilds, outcome \in SendOutcomes : Send(i, t, outcome)
    \/ \E i \in PairSlots, t \in Guilds : Wake(i, t)
    \/ \E i \in PairSlots : Forget(i)

SpecPair == InitPair /\ [][NextPair]_vars

\* format_mentions alone: one call, on any body, mention list and target
\* guild.
InitMentions ==
    /\ server_groups = [g \in {} |-> None]
    /\ group_mappings = [k \in {} |-> <<>>]
    /\ relay_enabled = [k \in {} |-> <<>>]
    /\ disk = NoFile
    /\ handlers = [i \in Slots |-> Idle]
    /\ \E content \in Bodies, mentions \in MentionLists, members \in Memberships :
          formatting = [called |-> FALSE, content |-> content, mentions |-> mentions,
                        members |-> members, formatted_content |-> content]

FormatMentions ==
    /\ ~formatting.called
    /\ formatting' = [formatting EXCEPT
            !.called = TRUE,
            !.formatted_content = format_mentions(formatting.content, formatting.mentions,
                                                  formatting.members)]
    /\ UNCHANGED <<server_groups, group_mappings, relay_enabled, disk, handlers>>

NextMentions == FormatMentions

SpecMentions == InitMentions /\ [][NextMentions]_vars

\* ------------------------------------------------- reading the tables

\* The state after a step.
After == State(server_groups', group_mappings', relay_enabled', disk')

\* In state s, server g has a binding under group G: an entry of the
\* channel table.
Bound(s, G, g) == G \in DOMAIN s.gm /\ Has(s.gm[G], g)

\* The channel of that binding.
BoundChannel(s, G, g) == Get(s.gm[G], g)

\* Its enabled flag.
Enabled(s, G, g) == G \in DOMAIN s.re /\ GetOr(s.re[G], g, FALSE)

\* The group server g is assigned to (None when it has none).
CurrentGroup(s, g) == GroupOf(s.sg, g)

\* The relay tasks of a slot.
TaskIds(h) == IF h = Idle THEN {} ELSE DOMAIN h.tasks

\* The step in which the on_message of slot i passes its relay decision
\* (lines 161-188): the state it reads is the state after the step.
Decides(i) ==
    /\ handlers[i].pc \in {"idle", "reply"}
    /\ handlers'[i].pc \in {"returned", "raised", "gather"}
    /\ ~handlers'[i].msg.bot

\* In state s, message m is posted in the channel of its server's own
\* binding for the server's current group.
PostedInOwnBinding(s, m) ==
    /\ Bound(s, CurrentGroup(s, m.guild), m.guild)
    /\ BoundChannel(s, CurrentGroup(s, m.guild), m.guild) = ChannelObj(m.channel)

\* ------------------------------------------------------------ the claims

\* C1: a message posted in the channel of an enabled binding Bi of a group G
\* gets one relay task for every other enabled binding Bj of G, to Bj's
\* channel, with the text "[origin] author: body rewritten for Bj's server".
\* (The safety half of the claim: without the task no copy ever arrives.)
C1_EveryEnabledBindingGetsACopy ==
    [][\A i \in Slots : Decides(i) =>
        LET m == handlers'[i].msg
            tasks == handlers'[i].tasks
        IN  \A G \in DOMAIN After.gm : \A j \in Keys(After.gm[G]) \ {m.guild} :
                (/\ Bound(After, G, m.guild)
                 /\ Enabled(After, G, m.guild)
                 /\ BoundChannel(After, G, m.guild) = ChannelObj(m.channel)
                 /\ Enabled(After, G, j))
                => /\ j \in DOMAIN tasks
                   /\ tasks[j].channel = BoundChannel(After, G, j)
                   /\ tasks[j].content = RelayText(m, j)]_vars

\* C2: relay tasks are created only for a message posted in the channel of
\* its server's own binding for the server's current group; a message posted
\* anywhere else (or by a server with no group or no binding) starts no
\* relay send.
C2_RelayOnlyFromOwnBinding ==
    [][\A i \in Slots :
        TaskIds(handlers'[i]) \ TaskIds(handlers[i]) # {}
        => Decides(i) /\ PostedInOwnBinding(After, handlers'[i].msg)]_vars

\* A plain message was handled and relayed to nobody, posted in a channel
\* other than the bound one by a server whose binding is enabled and whose
\* group has another enabled binding.
C2_Witness ==
    \E i \in Slots :
        /\ handlers[i].pc = "returned"
        /\ handlers[i].tasks = NoTasks
        /\ ~handlers[i].msg.bot
        /\ handlers[i].msg.cmd = None
        /\ LET g == handlers[i].msg.guild
               G == CurrentGroup(Now, g)
           IN  /\ Bound(Now, G, g)
               /\ Enabled(Now, G, g)
               /\ BoundChannel(Now, G, g) # ChannelObj(handlers[i].msg.channel)
               /\ \E j \in Guilds \ {g} : Bound(Now, G, j) /\ Enabled(Now, G, j)

\* C3: at a relay decision taken while server S's binding in its current
\* group is disabled, nothing is relayed to S's bound channel and a message
\* posted in S's bound channel is relayed to nobody.
C3_DisabledBindingIsSilent ==
    [][\A i \in Slots : Decides(i) =>
        LET m == handlers'[i].msg
            tasks == handlers'[i].tasks
        IN  \A S \in Guilds :
                LET G == CurrentGroup(After, S)
                IN  (Bound(After, G, S) /\ ~Enabled(After, G, S))
                    => /\ \A t \in DOMAIN tasks : tasks[t].channel # BoundChannel(After, G, S)
                       /\ (m.guild = S /\ BoundChannel(After, G, S) = ChannelObj(m.channel))
                            => DOMAIN tasks = {}]_vars

\* C4: when a message is relayed, every enabled target of the group whose
\* own channel is in order gets its relay task, whatever goes wrong with the
\* copy of another target.
C4_FailureOfOneTargetSparesTheOthers ==
    [][\A i \in Slots : Decides(i) =>
        LET m == handlers'[i].msg
            G == CurrentGroup(After, m.guild)
        IN  (PostedInOwnBinding(After, m) /\ Enabled(After, G, m.guild))
            => \A j \in Keys(After.gm[G]) \ {m.guild} :
                    (Enabled(After, G, j) /\ BoundChannel(After, G, j) # NoChannel)
                    => j \in TaskIds(handlers'[i])]_vars

\* C5: the handling of a relayed message returns only when every relay task
\* has finished, and it never ends by an exception.
C5_HandlingJoinsAndReturnsNormally ==
    \A i \in Slots :
        TaskIds(handlers[i]) # {}
        => /\ handlers[i].pc # "raised"
           /\ handlers[i].pc = "returned"
                => \A t \in DOMAIN handlers[i].tasks :
                        handlers[i].tasks[t].st \in {"done", "failed"}

\* C6: every relay task goes from its send attempt into the rate-limit
\* sleep, whether the send succeeded or failed.
C6_EveryTaskPausesAfterItsSend ==
    [][\A i \in Slots : \A t \in TaskIds(handlers[i]) :
        (handlers[i].tasks[t].st = "send" /\ handlers'[i].tasks[t].st # "send")
        => handlers'[i].tasks[t].st = "sleep"]_vars

\* C7: every relay task goes to the channel of a server that is assigned,
\* when the message is handled, to the group of the origin server.
C7_TargetsAreOfTheOriginsGroup ==
    [][\A i \in Slots : Decides(i) =>
        \A t \in TaskIds(handlers'[i]) :
            CurrentGroup(After, handlers'[i].tasks[t].channel.guild)
                = CurrentGroup(After, handlers'[i].msg.guild)]_vars

\* C8: a binding of server S under group G exists only while S is assigned
\* to G.
C8_BindingOnlyInCurrentGroup ==
    \A G \in DOMAIN group_mappings : \A g \in Keys(group_mappings[G]) : CurrentGroup(Now, g) = G

\* The /setsharedchannel and the /enable and /disable messages of an
\* administrator.
BindMessages ==
    {[guild |-> g, channel |-> Lobby(g), bot |-> FALSE, admin |-> TRUE,
      cmd |-> "setsharedchannel", arg |-> c] : g \in Guilds, c \in Channels}

ToggleMessages ==
    {[guild |-> g, channel |-> Lobby(g), bot |-> FALSE, admin |-> TRUE, cmd |-> k, arg |-> None] :
        g \in Guilds, k \in {"enable", "disable"}}

\* C9: /setsharedchannel replies NotGrouped, changing nothing in memory or
\* on disk, exactly when the server has no group assignment; otherwise it
\* leaves the server's binding in its current group as (channel, enabled).
C9_BindFailsExactlyWhenUnassigned ==
    [][\A i \in Slots, m \in BindMessages, io \in SaveOutcomes : OnMessage(i, m, io) =>
        LET G == CurrentGroup(Now, m.guild)
        IN  IF m.guild \notin DOMAIN server_groups
            THEN handlers'[i].reply = "NotGrouped" /\ UNCHANGED <<mem, disk>>
            ELSE /\ handlers'[i].reply # "NotGrouped"
                 /\ Bound(After, G, m.guild)
                 /\ BoundChannel(After, G, m.guild) = ChannelObj(m.arg)
                 /\ Enabled(After, G, m.guild)]_vars

\* C10: /enable and /disable reply NoBinding and change nothing when the
\* server has no binding in its current group; otherwise they change the
\* enabled flag of that binding and nothing else: the channels, the other
\* flags, the order of the bindings and the group assignments stay.
C10_ToggleChangesOnlyTheFlag ==
    [][\A i \in Slots, m \in ToggleMessages, io \in SaveOutcomes : OnMessage(i, m, io) =>
        LET G == CurrentGroup(Now, m.guild)
        IN  IF ~Bound(Now, G, m.guild)
            THEN handlers'[i].reply = "NoBinding" /\ UNCHANGED <<mem, disk>>
            ELSE /\ handlers'[i].reply # "NoBinding"
                 /\ UNCHANGED <<server_groups, group_mappings>>
                 /\ DOMAIN relay_enabled' = DOMAIN relay_enabled
                 /\ \A k \in DOMAIN relay_enabled :
                        /\ Len(relay_enabled'[k]) = Len(relay_enabled[k])
                        /\ \A n \in 1 .. Len(relay_enabled[k]) :
                            /\ relay_enabled'[k][n][1] = relay_enabled[k][n][1]
                            /\ relay_enabled'[k][n][2] =
                                 IF k = G /\ relay_enabled[k][n][1] = m.guild
                                 THEN (m.cmd = "enable")
                                 ELSE relay_enabled[k][n][2]]_vars

\* /disable has answered "Disabled" for a server that stays bound to its
\* channel with the flag off, beside another binding of the group that is
\* still enabled.
C10_Witness ==
    \E i \in Slots :
        /\ handlers[i].pc = "reply"
        /\ handlers[i].msg.cmd = "disable"
        /\ handlers[i].reply = "Disabled"
        /\ LET g == handlers[i].msg.guild
               G == CurrentGroup(Now, g)
           IN  /\ Bound(Now, G, g)
               /\ BoundChannel(Now, G, g) # NoChannel
               /\ ~Enabled(Now, G, g)
               /\ \E j \in Guilds \ {g} : Bound(Now, G, j) /\ Enabled(Now, G, j)

\* C11: in every state reached by commands while all channel ids resolve,
\* save_settings() followed by load_settings() gives back the same group
\* assignments and the same bindings, with their channels, their flags and
\* their order within each group.
C11_SaveThenLoadReproduces ==
    LET saved == save_settings(Now, "ok")
        loaded == load_settings(saved.s, Channels)
    IN  /\ ~saved.raised
        /\ loaded.sg = server_groups
        /\ loaded.gm = group_mappings
        /\ loaded.re = relay_enabled

\* The file holds the save of a state in which group "a" lists server 2
\* before server 1, server 1 on its second channel and switched off, and
\* loading that file gives the state back.
C11_Witness ==
    /\ disk # NoFile
    /\ disk = Document(Now)
    /\ "a" \in DOMAIN group_mappings
    /\ group_mappings["a"] = <<<<2, ChannelObj(21)>>, <<1, ChannelObj(12)>>>>
    /\ relay_enabled["a"] = <<<<2, TRUE>>, <<1, FALSE>>>>
    /\ load_settings(Now, Channels) = Now

\* C12: the binding table holds only bindings with a resolved channel: an
\* entry of the file whose channel id does not resolve is dropped by the
\* load, and no binding is left for it.
C12_UnresolvedBindingIsDropped ==
    \A G \in DOMAIN group_mappings : \A g \in Keys(group_mappings[G]) :
        BoundChannel(Now, G, g) # NoChannel

\* In state s the settings file holds what the memory holds: the same group
\* assignments, the same flags and the same bindings in the same order,
\* each with the id of its channel (a binding whose channel is None is
\* compared by its key alone).  No file stands for empty tables.
SnapshotMatches(s) ==
    IF s.dk = NoFile
    THEN DOMAIN s.sg = {} /\ DOMAIN s.gm = {} /\ DOMAIN s.re = {}
    ELSE IF s.dk = Torn
    THEN FALSE
    ELSE /\ s.dk.server_groups = [k \in {Str(g) : g \in DOMAIN s.sg} |-> s.sg[ParseInt(k)]]
         /\ s.dk.relay_enabled = [k \in DOMAIN s.re |-> StrKeys(s.re[k])]
         /\ DOMAIN s.dk.group_mappings = DOMAIN s.gm
         /\ \A k \in DOMAIN s.gm :
                /\ Len(s.dk.group_mappings[k]) = Len(s.gm[k])
                /\ \A n \in 1 .. Len(s.gm[k]) :
                      /\ s.dk.group_mappings[k][n][1] = Str(s.gm[k][n][1])
                      /\ \/ s.gm[k][n][2] = NoChannel
                         \/ s.dk.group_mappings[k][n][2] = s.gm[k][n][2].id

\* C13: with every write of the file succeeding, the file holds the memory's
\* group assignments and bindings whenever a handler waits: each command
\* that changes them has saved them before it waits for its reply, and a
\* command that replies NotGrouped or NoBinding has written nothing.
C13_SnapshotEqualsMemory == SnapshotMatches(Now)

\* The messages of an administrator that change the tables.
MutatingMessages ==
    BindMessages \cup ToggleMessages
    \cup {[guild |-> g, channel |-> Lobby(g), bot |-> FALSE, admin |-> TRUE,
           cmd |-> "setgroup", arg |-> x] : g \in Guilds, x \in {"", "a", "b"}}

\* C14: whatever becomes of the write, a mutating command leaves in memory
\* what it leaves when the write succeeds (a failed write undoes nothing),
\* and a save that succeeds writes the whole memory, the changes that
\* earlier failed saves left unsaved included.  The handlers read the
\* memory alone: the file is read by load_settings only.
C14_FailedWriteKeepsMemory ==
    [][\A i \in Slots, m \in MutatingMessages, io \in SaveOutcomes \cup SaveFailures :
        OnMessage(i, m, io) =>
            LET ok == process_commands(Now, m, "ok").s
            IN  /\ server_groups' = ok.sg
                /\ group_mappings' = ok.gm
                /\ relay_enabled' = ok.re
                /\ io \in SaveFailures => handlers'[i].reply \notin {"GroupSet", "ChannelSet", "Enabled", "Disabled"}
                /\ handlers'[i].reply \in {"GroupSet", "ChannelSet", "Enabled", "Disabled"}
                     => disk' = Document(After)]_vars

\* The write of a /setsharedchannel failed: the command has not replied, the
\* file does not hold what the memory holds, and the message, typed in the
\* channel it has just bound, is being relayed to the other server of the
\* group from the binding that is in memory alone.
C14_Witness ==
    \E i \in Slots :
        /\ handlers[i].pc = "gather"
        /\ handlers[i].msg.cmd = "setsharedchannel"
        /\ handlers[i].reply = None
        /\ disk # NoFile
        /\ ~SnapshotMatches(Now)
        /\ Bound(Now, "a", handlers[i].msg.guild)
        /\ \E j \in TaskIds(handlers[i]) : handlers[i].tasks[j].st = "send"

\* The users of a mention list.
Mentioned(mentions) == {mentions[n] : n \in 1 .. Len(mentions)}

\* Whether the sequence old stands at the head of str.
StartsWith(str, old) == Len(str) >= Len(old) /\ SubSeq(str, 1, Len(old)) = old

\* The body read once from left to right: the mention token of a mentioned
\* user who is a member becomes "@" and the display name, everything else
\* stays.
RECURSIVE Rewritten(_, _, _)
Rewritten(body, users, members) ==
    IF body = <<>> THEN <<>>
    ELSE IF \E u \in users \cap DOMAIN members : StartsWith(body, MentionToken(u))
    THEN LET u == CHOOSE v \in users \cap DOMAIN members : StartsWith(body, MentionToken(v))
         IN  <<"@">> \o members[u]
                \o Rewritten(SubSeq(body, Len(MentionToken(u)) + 1, Len(body)), users, members)
    ELSE <<Head(body)>> \o Rewritten(Tail(body), users, members)

\* C15: format_mentions replaces every mention token of a mentioned user who
\* is a member of the target guild by "@" and the display name, and changes
\* nothing else: not the tokens of the other users, not any other text.
C15_OnlyTheTokensOfMembersAreReplaced ==
    formatting.called =>
        formatting.formatted_content
            = Rewritten(formatting.content, Mentioned(formatting.mentions), formatting.members)

\* C16: the text format_mentions returns is the same for every order of the
\* same mentioned users.
C16_OrderOfTheMentionsDoesNotMatter ==
    formatting.called =>
        \A q \in Orderings(Mentioned(formatting.mentions)) :
            format_mentions(formatting.content, q, formatting.members)
                = formatting.formatted_content

\* In state s every binding has both its channel and its enabled flag.
NoHalfBind(s) ==
    \A G \in DOMAIN s.gm : \A g \in Keys(s.gm[G]) :
        G \in DOMAIN s.re /\ Has(s.re[G], g)

\* The targets of a message of server g read off the one state s: none
\* unless the message is posted in the channel of g's enabled binding under
\* its current group, else the other servers with an enabled binding there.
TargetsIn(s, m) ==
    LET G == CurrentGroup(s, m.guild)
    IN  IF PostedInOwnBinding(s, m) /\ Enabled(s, G, m.guild)
        THEN {j \in Keys(s.gm[G]) \ {m.guild} : Enabled(s, G, j)}
        ELSE {}

\* C17: with two handlers taking turns at their waits, every state a handler
\* can see has each binding whole (channel and flag), and the step in which
\* a handler decides on its message takes the eligibility and all targets
\* from the one state the step ends in, a state that no command but the
\* message's own has changed during the step; the other handler does not
\* move in that step.
C17_DecisionReadsOneState ==
    [][/\ NoHalfBind(After)
       /\ \A i \in PairSlots : Decides(i) =>
            /\ TaskIds(handlers'[i]) = TargetsIn(After, handlers'[i].msg)
            /\ \A t \in TaskIds(handlers'[i]) :
                    handlers'[i].tasks[t].channel
                        = BoundChannel(After, CurrentGroup(After, handlers'[i].msg.guild), t)
            /\ handlers[i].pc = "reply" => UNCHANGED <<mem, disk>>
            /\ \A k \in PairSlots \ {i} : handlers'[k] = handlers[k]]_vars

\* Both handlers are under way: one has relayed a message of server 1 to
\* server 2 and waits for the send, the other has since run the /disable of
\* server 2 and waits for its reply.
C17_Witness ==
    \E i, k \in PairSlots :
        /\ i # k
        /\ handlers[i].pc = "gather"
        /\ handlers[i].msg.guild = 1
        /\ 2 \in TaskIds(handlers[i])
        /\ handlers[i].tasks[2].st = "send"
        /\ handlers[k].pc = "reply"
        /\ handlers[k].msg.cmd = "disable"
        /\ handlers[k].msg.guild = 2
        /\ handlers[k].reply = "Disabled"
        /\ ~Enabled(Now, "a", 2)

\* C18: a message of the bot itself is dropped by on_message without a
\* change and without a send; a user's message gets at most one relay task
\* for each other binding of its group (at most n - 1 for n bindings), all
\* created at the relay decision; and a task that has made its send attempt
\* never makes another.
C18_NoRelayLoop ==
    [][\A i \in Slots :
        /\ (handlers'[i] # Idle /\ handlers'[i].msg.bot)
             => /\ handlers'[i].pc = "returned"
                /\ TaskIds(handlers'[i]) = {}
                /\ handlers[i] = Idle => UNCHANGED <<mem, disk>>
        /\ (Decides(i) /\ TaskIds(handlers'[i]) # {})
             => /\ TaskIds(handlers'[i])
                     \subseteq Keys(After.gm[CurrentGroup(After, handlers'[i].msg.guild)])
                               \ {handlers'[i].msg.guild}
                /\ Cardinality(TaskIds(handlers'[i]))
                     <= Len(After.gm[CurrentGroup(After, handlers'[i].msg.guild)]) - 1
        /\ (TaskIds(handlers'[i]) \ TaskIds(handlers[i]) # {}) => Decides(i)
        /\ \A t \in TaskIds(handlers[i]) :
                handlers[i].tasks[t].st # "send"
                => \/ handlers'[i] = Idle
                   \/ handlers'[i].tasks[t].st # "send"]_vars

\* The copy the bot posted in the bound, enabled channel of a server whose
\* group has another enabled binding has been handled: on_message returned
\* without a relay task.
C18_Witness ==
    \E i \in Slots :
        /\ handlers[i] # Idle
        /\ handlers[i].msg.bot
        /\ handlers[i].pc = "returned"
        /\ handlers[i].tasks = NoTasks
        /\ LET g == handlers[i].msg.guild
               G == CurrentGroup(Now, g)
           IN  /\ Bound(Now, G, g)
               /\ Enabled(Now, G, g)
               /\ BoundChannel(Now, G, g) = ChannelObj(handlers[i].msg.channel)
               /\ \E j \in Guilds \ {g} :
                    Bound(Now, G, j) /\ Enabled(Now, G, j) /\ BoundChannel(Now, G, j) # NoChannel

\* C19: the channel table and the enabled table have the same group keys
\* and, under each group, the same server keys, also after a load: a lookup
\* of the enabled table by a group taken from the channel table finds it.
C19_SameKeysInBothTables ==
    /\ DOMAIN group_mappings = DOMAIN relay_enabled
    /\ \A G \in DOMAIN group_mappings : Keys(group_mappings[G]) = Keys(relay_enabled[G])

\* A file was loaded while the channel of one of its bindings did not
\* resolve: that binding is still in both tables, beside another one.
C19_Witness ==
    /\ "a" \in DOMAIN group_mappings
    /\ "a" \in DOMAIN relay_enabled
    /\ Len(group_mappings["a"]) >= 2
    /\ \E g \in Keys(group_mappings["a"]) :
            BoundChannel(Now, "a", g) = NoChannel /\ Has(relay_enabled["a"], g)

\* The command of message m has run and changed the tables, as its reply
\* tells.
Ran(h, cmd, reply) == h.msg.cmd = cmd /\ h.reply = reply

\* The other servers with an enabled binding under the current group of
\* server g, in state s.
OtherEnabled(s, g) ==
    {j \in Keys(s.gm[CurrentGroup(s, g)]) \ {g} : Enabled(s, CurrentGroup(s, g), j)}

====
